---- MODULE Spec2Model ----
(***************************************************************************)
(* A model of luaparser: the Lua lexer (luaparser/lexer.py), the token     *)
(* stream (luaparser/types.py, class Tokens), the error store and the      *)
(* recursive-descent parser with typo recovery (luaparser/parser.py).      *)
(*                                                                         *)
(* The parser is modelled as a stack machine: one frame per active call    *)
(* of a grammar procedure, one action per procedure, one step of an action *)
(* running the procedure from its current position to its next call,       *)
(* return or raise.  The lexer is modelled character by character.         *)
(***************************************************************************)
EXTENDS Integers, Sequences, FiniteSets, TLC

VARIABLES
  toks,              \* the token sequence the lexer yields (Tokens._tokens, whole)
  hashorder,         \* the order in which this run iterates a set of strings
  input,             \* how toks was built: the declarations it holds, if any
  pos,               \* how many tokens have been pulled from Tokens._tokens
  tok,               \* the current token (Tokens._t, _tt, _line)
  errors,            \* ErrorStore._list (ErrorStore._count is its length)
  functions,         \* Parser._functions
  lastfunction,      \* Parser._lastfunction
  unnamed_function,  \* Parser._unnamed_function
  stack,             \* the active calls of the parser's procedures, innermost last
  ret,               \* the value the last finished call returned
  status,            \* "running", "returned" (parser() came back) or "crashed"
  crash,             \* the exception that left parser(), if any
  source,            \* the characters of the file the lexer reads
  lex,               \* the lexer: where lexer() stands, its iterator, its fields
  tee                \* Tokens._tokens as an iterator: the generator and the
                     \* buffer itertools.tee puts in front of it, and what the
                     \* calls of next and lookahead have delivered

vars == <<toks, hashorder, input, pos, tok, errors, functions, lastfunction,
          unnamed_function, stack, ret, status, crash, source, lex, tee>>

\* ------------------------------------------------------------------ texts

\* Python's None, as the text, the type and the line of the end of input.
None == "<None>"

\* Python's True and False as returned values.
True == "True"
False == "False"

\* str(x) of a token text or of None.
Str(x) == IF x = None THEN "None" ELSE x

\* The characters of a text: a Python str is a sequence of characters.
Chars(s) ==
  CASE s = "" -> <<>>
    [] s = "a" -> <<"a">>
    [] s = "b" -> <<"b">>
    [] s = "f" -> <<"f">>
    [] s = "g" -> <<"g">>
    [] s = "x" -> <<"x">>
    [] s = "y" -> <<"y">>
    [] s = "d" -> <<"d">>
    [] s = "en" -> <<"e", "n">>
    [] s = "ennd" -> <<"e", "n", "n", "d">>
    [] s = "els" -> <<"e", "l", "s">>
    [] s = "untl" -> <<"u", "n", "t", "l">>
    [] s = "whille" -> <<"w", "h", "i", "l", "l", "e">>
    [] s = "locl" -> <<"l", "o", "c", "l">>
    [] s = "fr" -> <<"f", "r">>
    [] s = "thn" -> <<"t", "h", "n">>
    [] s = "aaaaaaaaaaaaa" ->
         <<"a", "a", "a", "a", "a", "a", "a", "a", "a", "a", "a", "a", "a">>
    [] s = "aaaaaaaaaaaaabbbbbbbbbbbbbb" ->
         <<"a", "a", "a", "a", "a", "a", "a", "a", "a", "a", "a", "a", "a",
           "b", "b", "b", "b", "b", "b", "b", "b", "b", "b", "b", "b", "b", "b">>
    [] s = "aaaaaaaaaaaaabbbbbbbbbbbbb" ->
         <<"a", "a", "a", "a", "a", "a", "a", "a", "a", "a", "a", "a", "a",
           "b", "b", "b", "b", "b", "b", "b", "b", "b", "b", "b", "b", "b">>
    [] s = "and" -> <<"a", "n", "d">>
    [] s = "break" -> <<"b", "r", "e", "a", "k">>
    [] s = "do" -> <<"d", "o">>
    [] s = "else" -> <<"e", "l", "s", "e">>
    [] s = "elseif" -> <<"e", "l", "s", "e", "i", "f">>
    [] s = "end" -> <<"e", "n", "d">>
    [] s = "false" -> <<"f", "a", "l", "s", "e">>
    [] s = "for" -> <<"f", "o", "r">>
    [] s = "function" -> <<"f", "u", "n", "c", "t", "i", "o", "n">>
    [] s = "if" -> <<"i", "f">>
    [] s = "in" -> <<"i", "n">>
    [] s = "local" -> <<"l", "o", "c", "a", "l">>
    [] s = "nil" -> <<"n", "i", "l">>
    [] s = "not" -> <<"n", "o", "t">>
    [] s = "or" -> <<"o", "r">>
    [] s = "repeat" -> <<"r", "e", "p", "e", "a", "t">>
    [] s = "return" -> <<"r", "e", "t", "u", "r", "n">>
    [] s = "then" -> <<"t", "h", "e", "n">>
    [] s = "true" -> <<"t", "r", "u", "e">>
    [] s = "until" -> <<"u", "n", "t", "i", "l">>
    [] s = "while" -> <<"w", "h", "i", "l", "e">>
    [] s = "..." -> <<".", ".", ".">>
    [] s = ".." -> <<".", ".">>
    [] s = "\"s\"" -> <<"\"", "s", "\"">>
    [] s \in {"1", "(", ")", "{", "}", "[", "]", ";", ":", ",", ".", "=",
              "+", "-", "#"} -> <<s>>

\* ------------------------------------------------- difflib.SequenceMatcher

\* How far a[i..] and b[j..] agree.
RECURSIVE RunLen(_, _, _, _)
RunLen(a, b, i, j) ==
  IF i > Len(a) \/ j > Len(b) \/ a[i] # b[j] THEN 0
  ELSE 1 + RunLen(a, b, i + 1, j + 1)

\* The blocks a[i..i+k-1] = b[j..j+k-1], k as large as i and j allow.
Blocks(a, b) ==
  {[i |-> i, j |-> j, k |-> RunLen(a, b, i, j)] :
     i \in 1..Len(a), j \in 1..Len(b)}

\* find_longest_match: the longest block; of the longest ones the one that
\* starts earliest in a, and of those the one that starts earliest in b.
LongestMatch(a, b) ==
  CHOOSE c \in UNION {
      {c \in S : \A d \in S :
         \/ c.k > d.k
         \/ /\ c.k = d.k
            /\ \/ c.i < d.i
               \/ c.i = d.i /\ c.j <= d.j} : S \in {Blocks(a, b)}} : TRUE

\* The total size of get_matching_blocks(): the longest block, then the same
\* to its left and to its right.
RECURSIVE MatchingSize(_, _)
MatchingSize(a, b) ==
  IF Len(a) = 0 \/ Len(b) = 0 THEN 0
  ELSE CHOOSE n \in {
         IF m.k = 0 THEN 0
         ELSE m.k
              + MatchingSize(SubSeq(a, 1, m.i - 1), SubSeq(b, 1, m.j - 1))
              + MatchingSize(SubSeq(a, m.i + m.k, Len(a)),
                             SubSeq(b, m.j + m.k, Len(b))) :
         m \in {LongestMatch(a, b)}} : TRUE

\* Parser.SIMILAR = 0.65, as the fraction SIMILAR_NUM / SIMILAR_DEN.
SIMILAR_NUM == 65
SIMILAR_DEN == 100

\* SequenceMatcher(None, x, y).ratio() = 2.0 * M / T (1.0 when T = 0), as the
\* pair <<2 * M, T>>; the lengths here are far too small for the float
\* division to round a quotient onto another one.
Ratio(x, y) ==
  CHOOSE r \in {
      IF Len(a) + Len(b) = 0 THEN <<1, 1>>
      ELSE <<2 * MatchingSize(a, b), Len(a) + Len(b)>> :
      a \in {Chars(x)}, b \in {Chars(y)}} : TRUE

\* r1 > r2 for two ratios.
RatioGreater(r1, r2) == r1[1] * r2[2] > r2[1] * r1[2]

\* ratio >= self.SIMILAR: a threshold that is not strict
AboveSimilar_OrEqual(r) == ~RatioGreater(<<SIMILAR_NUM, SIMILAR_DEN>>, r)

\* ratio > self.SIMILAR
AboveSimilar(r) == RatioGreater(r, <<SIMILAR_NUM, SIMILAR_DEN>>)

\* ------------------------------------------------------------ the machine

\* The parser's whole state as one record, so that a step of a procedure is a
\* composition of the operations below.  exc is the exception in flight: once
\* one is raised, the rest of the step does nothing.
\* F applied to v, with v evaluated once, before F.
Strict(v, F(_)) == CHOOSE r \in {F(x) : x \in {v}} : TRUE

NoExc == [type |-> "none", arg |-> "", params |-> <<>>]

Exc(type, arg, params) == [type |-> type, arg |-> arg, params |-> params]

\* Where a loop of the parser begins an iteration: the loop of chunk, the
\* suffixes of varorfunctioncall, the elseif branches, the names of a 'for',
\* the vars of an assignment, and the loops of namelist, funcname and
\* tableconstructor.
LoopHeads ==
  {<<"chunk", "start">>, <<"varorfunctioncall", "suffix">>,
   <<"stat", "if_chunk">>, <<"stat", "for_names">>, <<"stat", "var_ret">>,
   <<"namelist", "loop">>, <<"funcname", "loop">>,
   <<"tableconstructor", "fields">>}

AtLoopHead(f) == <<f.proc, f.pc>> \in LoopHeads

\* The stack as a step finds it: a frame that begins an iteration of its loop
\* notes the position of the token stream.
Marked(s) ==
  IF s # <<>> /\ AtLoopHead(s[Len(s)])
  THEN [s EXCEPT ![Len(s)].mark2 = s[Len(s)].mark, ![Len(s)].mark = pos]
  ELSE s

M == [pos |-> pos, tok |-> tok, errors |-> errors, functions |-> functions,
      lastfunction |-> lastfunction, unnamed_function |-> unnamed_function,
      stack |-> Marked(stack), ret |-> ret, exc |-> NoExc]

Raised(m) == m.exc.type # "none"

Raise(m0, e) ==
  Strict(m0, LAMBDA m :
  IF Raised(m) THEN m ELSE [m EXCEPT !.exc = e]
  )

\* next(self._tokens, (None, None, None)): the end of input has no text, no
\* type and no line (line 0 here; lines count from 1).
NoneTok == [t |-> None, tt |-> None, line |-> 0]

\* A frame of the stack: the procedure, where it stands, and its locals.
\* mark and mark2 are history, not read by any step: the position of the
\* token stream when the frame's loop began its last iteration and the one
\* before (-1 before there is one).
Fr(proc) ==
  [proc |-> proc, pc |-> "start", cond |-> {}, exp |-> FALSE,
   broken |-> FALSE, name |-> FALSE, t |-> None, tt |-> None,
   isvar |-> FALSE, temp |-> <<>>, mark |-> -1, mark2 |-> -1]

Top(m) == m.stack[Len(m.stack)]

Goto(m0, pc) ==
  Strict(m0, LAMBDA m :
  IF Raised(m) THEN m ELSE [m EXCEPT !.stack[Len(m.stack)].pc = pc]
  )

\* A call: the caller will go on at pc when the callee has returned.
Call(m0, pc, callee) ==
  Strict(m0, LAMBDA m :
  IF Raised(m) THEN m
  ELSE [m EXCEPT !.stack = Append([@ EXCEPT ![Len(@)].pc = pc], callee)]
  )

\* A return: ret is what the caller receives, the returned value as arg (a
\* returned list as params); after an exception, ret is the exception caught.
Return(m0, v) ==
  Strict(m0, LAMBDA m :
  IF Raised(m) THEN m
  ELSE [m EXCEPT !.stack = SubSeq(@, 1, Len(@) - 1),
                 !.ret = Exc("none", v, <<>>)]
  )

ReturnList(m0, l) ==
  Strict(m0, LAMBDA m :
  IF Raised(m) THEN m
  ELSE [m EXCEPT !.stack = SubSeq(@, 1, Len(@) - 1),
                 !.ret = Exc("none", None, l)]
  )

\* ------------------------------------------------------- types.py: Tokens

\* Tokens.next
TokensNext(m0) ==
  Strict(m0, LAMBDA m :
  IF Raised(m) THEN m
  ELSE IF m.pos < Len(toks)
       THEN [m EXCEPT !.pos = @ + 1, !.tok = toks[m.pos + 1]]
       ELSE [m EXCEPT !.pos = Len(toks) + 1, !.tok = NoneTok]
  )

\* Tokens.match (nmatch is its negation)
Match(m0, s) ==
  Strict(m0, LAMBDA m :
  IF ~Raised(m) /\ m.tok.t = s THEN [m |-> TokensNext(m), ok |-> TRUE]
  ELSE [m |-> m, ok |-> FALSE]
  )

\* Tokens.match_type (nmatch_type is its negation)
MatchType(m0, type) ==
  Strict(m0, LAMBDA m :
  IF ~Raised(m) /\ m.tok.tt = type THEN [m |-> TokensNext(m), ok |-> TRUE]
  ELSE [m |-> m, ok |-> FALSE]
  )

\* Tokens.match_set (nmatch_set is its negation)
MatchSet(m0, s) ==
  Strict(m0, LAMBDA m :
  IF ~Raised(m) /\ m.tok.t \in s THEN [m |-> TokensNext(m), ok |-> TRUE]
  ELSE [m |-> m, ok |-> FALSE]
  )

\* set_t that leaves the current token as it is: the name is not replaced by
\* the keyword.
SetT_Kept(m0, t, tt) == m0

\* Tokens.set_t
SetT(m0, t, tt) ==
  Strict(m0, LAMBDA m :
  IF Raised(m) THEN m ELSE [m EXCEPT !.tok.t = t, !.tok.tt = tt]
  )

\* Tokens.lookahead_ttt and Tokens.lookahead: next() of a tee of the
\* iterator, with no default: StopIteration when no token is left.
Lookahead(m0) ==
  Strict(m0, LAMBDA m :
  IF m.pos + 1 <= Len(toks)
  THEN [m |-> m, ok |-> TRUE, t |-> toks[m.pos + 1].t, tt |-> toks[m.pos + 1].tt]
  ELSE [m |-> Raise(m, Exc("StopIteration", "", <<>>)), ok |-> FALSE,
        t |-> None, tt |-> None]
  )

\* ------------------------------------- types.py: Tokens._tokens and tee

\* Tokens._tokens is the generator Lexer.lexer() until the first lookahead;
\* from then on it is one of the two iterators of itertools.tee.  The
\* iterators of a tee share the items pulled from the generator: an item
\* pulled for one of them waits in the buffer for the other.
\*   gen      how many tokens the generator has yielded
\*   buffer   the tokens pulled from the generator that Tokens._tokens has
\*            not delivered yet
\*   peek     the token the last lookahead read (history)
\*   made     the tokens that __init__ and next have made current (history)
\*   op       the last call; calls, peeked: how many calls, how many
\*            lookaheads there have been (history)
TeeIdle ==
  [gen |-> 0, buffer |-> <<>>, peek |-> NoneTok, made |-> <<>>,
   op |-> "idle", calls |-> 0, peeked |-> 0]

\* next() of the generator
GenNext(it, stream) ==
  IF it.gen < Len(stream)
  THEN [it |-> [it EXCEPT !.gen = @ + 1], item |-> stream[it.gen + 1],
        stop |-> FALSE]
  ELSE [it |-> it, item |-> NoneTok, stop |-> TRUE]

\* lookahead that reads self._tokens itself, without a tee: the token it
\* reads is lost for next().
TeePeek_NoTee(it, stream) ==
  IF it.buffer # <<>>
  THEN [it |-> [it EXCEPT !.buffer = Tail(@)], item |-> Head(it.buffer),
        stop |-> FALSE]
  ELSE GenNext(it, stream)

\* next(self._tokens): the oldest token that waits in the buffer, or else
\* the next token of the generator
TeeNext(it, stream) ==
  IF it.buffer # <<>>
  THEN [it |-> [it EXCEPT !.buffer = Tail(@)], item |-> Head(it.buffer),
        stop |-> FALSE]
  ELSE GenNext(it, stream)

\* self._tokens, tokens = itertools.tee(self._tokens); next(tokens): the new
\* iterator stands where self._tokens stands; its first item is the oldest
\* token that waits in the buffer, or else it pulls one from the generator,
\* which then waits in the buffer for self._tokens
TeePeek(it, stream) ==
  IF it.buffer # <<>>
  THEN [it |-> it, item |-> Head(it.buffer), stop |-> FALSE]
  ELSE LET g == GenNext(it, stream)
       IN  IF g.stop THEN g
           ELSE [g EXCEPT !.it.buffer = Append(@, g.item)]

\* ---------------------------------------------------- types.py: ErrorStore

\* ErrorStore.report
Report(m0, line, message) ==
  Strict(m0, LAMBDA m :
  IF Raised(m) THEN m
  ELSE [m EXCEPT !.errors = Append(@, [line |-> line, message |-> message])]
  )

\* ------------------------------------------------------ parser.py: Parser

\* Parser.e.  SequenceMatcher over a current token of None raises TypeError.
E(m0, expected, msg) ==
  Strict(m0, LAMBDA m :
  IF Raised(m) THEN m
  ELSE IF expected # "" /\ m.tok.t = None
       THEN Raise(m, Exc("TypeError", "", <<>>))
       ELSE LET msg1 == IF expected # "" THEN "'" \o expected \o "' " \o msg
                        ELSE msg
                m1 == IF expected # "" /\ AboveSimilar(Ratio(m.tok.t, expected))
                      THEN TokensNext(m) ELSE m
            IN  Report(m1, m1.tok.line,
                       "'" \o Str(m1.tok.t) \o "' not expected. " \o msg1 \o ".")
  )

\* The for loop of Parser.e_set over the candidates in iteration order: temp
\* is only assigned for a candidate that is not None (SequenceMatcher raises
\* TypeError when the current text is None), and is read for every candidate
\* (UnboundLocalError when it was never assigned).
\* One candidate of the loop: acc after it.
ESetVisit(expected, text, acc) ==
  IF expected # None /\ text = None
  THEN [acc EXCEPT !.error = "TypeError"]
  ELSE IF expected = None /\ ~acc.bound
  THEN [acc EXCEPT !.error = "UnboundLocalError"]
  ELSE LET temp == IF expected # None THEN Ratio(text, expected)
                   ELSE acc.temp
       IN  IF RatioGreater(temp, acc.maximum)
           THEN [acc EXCEPT !.temp = temp, !.bound = TRUE,
                            !.maximum = temp, !.best_match = expected]
           ELSE [acc EXCEPT !.temp = temp, !.bound = TRUE]

RECURSIVE ESetLoop(_, _, _)
ESetLoop(order, text, acc) ==
  IF order = <<>> \/ acc.error # "" THEN acc
  ELSE CHOOSE r \in {ESetLoop(rest, text, a) :
                       rest \in {Tail(order)},
                       a \in {ESetVisit(Head(order), text, acc)}} : TRUE

\* The order in which a set of strings is iterated in this run.
IterationOrder(expectation) ==
  LET In(x) == x \in expectation IN SelectSeq(hashorder, In)

\* Parser.e_set: the matched keyword ("" if none) and the state it leaves.
ESet(m0, expectation, increment, msg) ==
  Strict(m0, LAMBDA m :
  IF Raised(m) THEN [m |-> m, best_match |-> ""]
  ELSE
    LET acc == ESetLoop(IterationOrder(expectation), m.tok.t,
                 [temp |-> <<0, 1>>, bound |-> FALSE, error |-> "",
                  maximum |-> <<0, 1>>, best_match |-> ""])
        similar == expectation # {} /\ AboveSimilar(acc.maximum)
        m1 == IF similar /\ increment THEN TokensNext(m) ELSE m
        m2 == IF msg # "" THEN Report(m1, m1.tok.line, msg \o ".") ELSE m1
    IN  IF acc.error # ""
        THEN [m |-> Raise(m, Exc(acc.error, "", <<>>)), best_match |-> ""]
        ELSE [m |-> m2,
              best_match |-> IF similar THEN acc.best_match ELSE ""]
  )

\* Parser.name: the text of the current token, consumed if it is a name.
\* The message of an invalid name is built by concatenating the text, which
\* raises TypeError when the text is None.
Name(m0) ==
  Strict(m0, LAMBDA m :
  LET temp == m.tok.t
      r == MatchType(m, "name")
  IN  IF Raised(m) \/ r.ok THEN [m |-> r.m, v |-> temp]
      ELSE IF temp = None
           THEN [m |-> Raise(m, Exc("TypeError", "", <<>>)), v |-> temp]
           ELSE [m |-> E(m, "", "'" \o temp \o "' is not a valid name"),
                 v |-> temp]
  )

SetLastfunction(m0, name) ==
  Strict(m0, LAMBDA m :
  IF Raised(m) THEN m ELSE [m EXCEPT !.lastfunction = name]
  )

\* The statement keywords a misspelled name is compared with.
StatKeywords == {"do", "while", "repeat", "if", "for", "function", "local"}

ChunkFr(cond) == [Fr("chunk") EXCEPT !.cond = cond]

VarorfunctioncallFr(exp, cond) ==
  [Fr("varorfunctioncall") EXCEPT !.exp = exp, !.cond = cond]

\* Parser.parser, up to the printing of the result.
StepParser(m0) ==
  Strict(m0, LAMBDA m :
  LET f == Top(m) IN
  CASE f.pc = "start" -> Call(m, "chunk_ret", ChunkFr({"end", None}))
    [] f.pc = "chunk_ret" -> Return(m, None)
    [] f.pc = "except" -> Return(E(m, "", m.ret.arg), None)
  )

\* self.t.match(';') at the end of an iteration of the loop of chunk
Semicolon(m0) ==
  Strict(m0, LAMBDA m :
  Goto(Match(m, ";").m, "start")
  )

\* Parser.chunk: one iteration of its loop, or what follows the loop
StepChunk(m0) ==
  Strict(m0, LAMBDA m :
  LET f == Top(m) IN
  CASE f.pc = "start" ->
         IF m.tok.t \in f.cond THEN Return(TokensNext(m), m.tok.t)
         ELSE IF m.tok.t = None
         THEN Return(E(m, "", "Scope not closed"), "")
         ELSE IF f.broken
         THEN LET r == ESet(m, f.cond, TRUE,
                            "Scope not closed after 'break' or 'return'")
              IN  Return(r.m, r.best_match)
         ELSE IF m.tok.t = "break"
         THEN Semicolon([TokensNext(m) EXCEPT
                           !.stack[Len(m.stack)].broken = TRUE])
         ELSE IF m.tok.t = "return"
         THEN LET m1 == [TokensNext(m) EXCEPT
                           !.stack[Len(m.stack)].broken = TRUE]
              IN  IF m1.tok.t \notin f.cond /\ m1.tok.t # None
                  THEN Call(m1, "explist_ret", Fr("explist"))
                  ELSE Semicolon(m1)
         ELSE Call(m, "stat_ret", [Fr("stat") EXCEPT !.cond = f.cond])
    [] f.pc \in {"stat_ret", "explist_ret"} -> Semicolon(m)
    [] f.pc = "except" -> Return(m, m.ret.arg)
  )

\* 'do' expected in a 'for' loop, then its block
ForDo(m0) ==
  Strict(m0, LAMBDA m :
  LET r == Match(m, "do")
      m1 == IF r.ok THEN r.m ELSE E(m, "do", "expected in 'for' loop")
  IN  Call(m1, "ret", ChunkFr({"end"}))
  )

\* the varlist of an assignment, one var per step, then '=' explist
VarList(m0) ==
  Strict(m0, LAMBDA m :
  LET r == Match(m, ",")
      s == Match(m, "=")
  IN  IF r.ok THEN Call(r.m, "var_ret", Fr("var"))
      ELSE IF s.ok THEN Call(s.m, "ret", Fr("explist"))
      ELSE Return(E(m, "=", "expected"), None)
  )

\* the rest of a 'local' statement after its namelist
LocalInit(m0) ==
  Strict(m0, LAMBDA m :
  LET r == Match(m, "=")
  IN  IF r.ok THEN Call(r.m, "ret", Fr("explist")) ELSE Return(m, None)
  )

\* 'then' expected after the condition of an 'if' or 'elseif', then its block
ThenChunk(m0, msg) ==
  Strict(m0, LAMBDA m :
  LET r == Match(m, "then")
      m1 == IF r.ok THEN r.m ELSE E(m, "then", msg)
  IN  Call(m1, "if_chunk", ChunkFr({"elseif", "else", "end"}))
  )

\* Parser.stat
StepStat(m0) ==
  Strict(m0, LAMBDA m :
  LET f == Top(m) IN
  CASE f.pc = "start" ->
         IF m.tok.t = "do" THEN Call(TokensNext(m), "ret", ChunkFr({"end"}))
         ELSE IF m.tok.t = "while"
         THEN Call(TokensNext(m), "while_exp", Fr("exp"))
         ELSE IF m.tok.t = "repeat"
         THEN Call(TokensNext(m), "repeat_chunk", ChunkFr({"until"}))
         ELSE IF m.tok.t = "if" THEN Call(TokensNext(m), "if_exp", Fr("exp"))
         ELSE IF m.tok.t = "function"
         THEN Call(TokensNext(m), "fn_name", Fr("funcname"))
         ELSE IF m.tok.t = "local"
         THEN LET r == Match(TokensNext(m), "function")
                  n == Name(r.m)
              IN  IF r.ok
                  THEN Call(SetLastfunction(n.m, n.v), "ret", Fr("funcbody"))
                  ELSE Call(r.m, "local_names", Fr("namelist"))
         ELSE IF m.tok.t = "for"
         THEN LET n == Name(TokensNext(m))
                  r == Match(n.m, "=")
              IN  IF r.ok THEN Call(r.m, "for_num1", Fr("exp"))
                  ELSE Goto(n.m, "for_names")
         ELSE Call(m, "vofc_ret", VarorfunctioncallFr(FALSE, f.cond))
    [] f.pc = "ret" -> Return(m, None)
    [] f.pc = "while_exp" ->
         LET r == Match(m, "do")
             m1 == IF r.ok THEN r.m ELSE E(m, "do", "not found after 'while'")
         IN  Call(m1, "ret", ChunkFr({"end"}))
    [] f.pc = "repeat_chunk" -> Call(m, "ret", Fr("exp"))
    [] f.pc = "if_exp" -> ThenChunk(m, "not found after 'if'")
    [] f.pc = "if_chunk" ->
         IF m.ret.arg = "elseif" THEN Call(m, "elseif_exp", Fr("exp"))
         ELSE IF m.ret.arg = "else" THEN Call(m, "ret", ChunkFr({"end"}))
         ELSE Return(m, None)
    [] f.pc = "elseif_exp" -> ThenChunk(m, "not found after 'else'")
    [] f.pc = "fn_name" -> Call(m, "ret", Fr("funcbody"))
    [] f.pc = "local_names" -> LocalInit(m)
    [] f.pc = "except" -> LocalInit(E(m, "", m.ret.arg))
    [] f.pc = "for_names" ->
         LET r == Match(m, ",")
             s == Match(m, "in")
             m1 == IF s.ok THEN s.m ELSE E(m, "in", "expected in 'for' loop")
         IN  IF r.ok THEN Name(r.m).m
             ELSE Call(m1, "for_do", Fr("explist"))
    [] f.pc = "for_num1" ->
         LET r == Match(m, ",")
             m1 == IF r.ok THEN r.m ELSE E(m, ",", "expected in 'for' loop")
         IN  Call(m1, "for_num2", Fr("exp"))
    [] f.pc = "for_num2" ->
         LET r == Match(m, ",")
         IN  IF r.ok THEN Call(r.m, "for_do", Fr("exp")) ELSE ForDo(m)
    [] f.pc = "for_do" -> ForDo(m)
    [] f.pc = "vofc_ret" -> IF m.ret.arg = True THEN VarList(m) ELSE Return(m, None)
    [] f.pc = "var_ret" -> VarList(m)
  )

\* Parser.var
StepVar(m0) ==
  Strict(m0, LAMBDA m :
  LET f == Top(m) IN
  CASE f.pc = "start" -> Call(m, "ret", VarorfunctioncallFr(FALSE, {}))
    [] f.pc = "ret" ->
         IF m.ret.arg = False THEN Return(E(m, "", "Variable expected"), None)
         ELSE Return(m, None)
  )

\* "Typo in '<current>' - should probably be '<best_match>'."
Typo(m0, best_match) ==
  Strict(m0, LAMBDA m :
  Report(m, m.tok.line, "Typo in '" \o Str(m.tok.t)
                        \o "' - should probably be '" \o best_match \o "'.")
  )

\* Parser.varorfunctioncall from "prefix done" to the loop over the suffixes:
\* the first suffix is chosen by the lookahead t, tt taken at the start.
PrefixDone(m0) ==
  Strict(m0, LAMBDA m :
  LET f == Top(m)
      syntax == "'[', '.', '(', '{', ':' or a string expected"
      r == ESet(m, f.cond, FALSE, "")
      r2 == ESet(r.m, StatKeywords, FALSE, "")
  IN  IF f.t \in {"[", "."}
      THEN Call([TokensNext(m) EXCEPT !.stack[Len(m.stack)].isvar = TRUE],
                "suffix", Fr("index"))
      ELSE IF f.t \in {"(", "{", ":"} \/ f.tt = "str"
      THEN Call([TokensNext(m) EXCEPT !.stack[Len(m.stack)].isvar = FALSE],
                "suffix", Fr("call"))
      ELSE IF f.exp THEN Return(TokensNext(m), False)
      ELSE IF ~f.name THEN Goto(E(TokensNext(m), "", syntax), "suffix")
      ELSE IF r.best_match # ""
      THEN Raise(TokensNext(Typo(r.m, r.best_match)),
                 Exc("EndOfScopeException", r.best_match, <<>>))
      ELSE IF r2.best_match # ""
      THEN Return(SetT(Typo(r2.m, r2.best_match), r2.best_match, "key"), False)
      ELSE Goto(E(TokensNext(r2.m), "", syntax), "suffix")
  )

\* Parser.varorfunctioncall
StepVarorfunctioncall(m0) ==
  Strict(m0, LAMBDA m :
  LET f == Top(m) IN
  CASE f.pc = "start" ->
         LET la == Lookahead(m)
             m1 == [la.m EXCEPT !.stack[Len(m.stack)].t = la.t,
                                !.stack[Len(m.stack)].tt = la.tt]
         IN  IF ~la.ok THEN la.m
             ELSE IF m.tok.tt = "name"
             THEN IF la.t \in {",", "="} THEN Return(TokensNext(m1), True)
                  ELSE PrefixDone([m1 EXCEPT !.stack[Len(m.stack)].name = TRUE])
             ELSE IF m.tok.t = "("
             THEN Call(TokensNext(m1), "paren_exp", Fr("exp"))
             ELSE Return(TokensNext(E(m1, "", "Name or '(' expected")), False)
    [] f.pc = "paren_exp" ->
         PrefixDone(IF m.tok.t # ")" THEN E(m, ")", "expected") ELSE m)
    [] f.pc = "suffix" ->
         IF m.tok.t \in {"[", "."}
         THEN Call([m EXCEPT !.stack[Len(m.stack)].isvar = TRUE],
                   "suffix", Fr("index"))
         ELSE IF m.tok.t \in {"(", "{", ":"} \/ m.tok.tt = "str"
         THEN Call([m EXCEPT !.stack[Len(m.stack)].isvar = FALSE],
                   "suffix", Fr("call"))
         ELSE Return(m, IF f.isvar THEN True ELSE False)
  )

\* the closing token of a bracketed construct: consumed, or reported by e
Close(m0, s) ==
  Strict(m0, LAMBDA m :
  LET r == Match(m, s)
  IN  Return(IF r.ok THEN r.m ELSE E(m, s, "expected"), None)
  )

\* Parser.index
StepIndex(m0) ==
  Strict(m0, LAMBDA m :
  LET f == Top(m)
      dot == Match(m, ".")
      bracket == Match(m, "[")
  IN
  CASE f.pc = "start" ->
         IF dot.ok THEN Return(Name(dot.m).m, None)
         ELSE IF bracket.ok THEN Call(bracket.m, "close", Fr("exp"))
         ELSE Return(E(m, "", "'.' or '[' expected"), None)
    [] f.pc = "close" -> Close(m, "]")
  )

\* Parser.tableconstructor
StepTableconstructor(m0) ==
  Strict(m0, LAMBDA m :
  LET f == Top(m)
      open == Match(m, "{")
      m1 == IF open.ok THEN open.m ELSE E(m, "{", "expected")
      empty == Match(m1, "}")
      sep == MatchSet(m, {",", ";"})
  IN
  CASE f.pc = "start" ->
         IF empty.ok THEN Return(empty.m, None)
         ELSE Call(m1, "fields", Fr("field"))
    [] f.pc = "fields" ->
         IF sep.ok /\ sep.m.tok.t # "}" THEN Call(sep.m, "fields", Fr("field"))
         ELSE Close(sep.m, "}")
  )

\* Parser.call
StepCall(m0) ==
  Strict(m0, LAMBDA m :
  LET f == Top(m)
      colon == Match(m, ":")
      m1 == IF colon.ok THEN Name(colon.m).m ELSE m
      str == MatchType(m1, "str")
      paren == Match(m1, "(")
      noargs == Match(paren.m, ")")
  IN
  CASE f.pc = "start" ->
         IF str.ok THEN Return(str.m, None)
         ELSE IF paren.ok
         THEN IF noargs.ok THEN Return(noargs.m, None)
              ELSE Call(paren.m, "close", Fr("explist"))
         ELSE IF m1.tok.t = "{" THEN Call(m1, "ret", Fr("tableconstructor"))
         ELSE Return(E(m1, "", "'(', '{' or a string expected"), None)
    [] f.pc = "close" -> Close(m, ")")
    [] f.pc = "ret" -> Return(m, None)
  )

\* Parser.field
StepField(m0) ==
  Strict(m0, LAMBDA m :
  LET f == Top(m)
      bracket == Match(m, "[")
      la == Lookahead(m)
  IN
  CASE f.pc = "start" ->
         IF bracket.ok THEN Call(bracket.m, "close", Fr("exp"))
         ELSE IF m.tok.tt = "name"
         THEN IF ~la.ok THEN la.m
              ELSE IF la.t = "="
              THEN Call(TokensNext(TokensNext(m)), "ret", Fr("exp"))
              ELSE Call(m, "ret", Fr("exp"))
         ELSE Call(m, "ret", Fr("exp"))
    [] f.pc = "close" -> Close(m, "]")
    [] f.pc = "ret" -> Return(m, None)
  )

\* Parser.value
StepValue(m0) ==
  Strict(m0, LAMBDA m :
  LET f == Top(m)
      const == MatchSet(m, {"nil", "false", "true", "..."})
      num == MatchType(m, "num")
      str == MatchType(m, "str")
      function == Match(m, "function")
  IN
  CASE f.pc = "start" ->
         IF const.ok THEN Return(const.m, None)
         ELSE IF num.ok THEN Return(num.m, None)
         ELSE IF str.ok THEN Return(str.m, None)
         ELSE IF function.ok THEN Call(function.m, "ret", Fr("funcbody"))
         ELSE IF m.tok.t = "{" THEN Call(m, "ret", Fr("tableconstructor"))
         ELSE Call(m, "ret", VarorfunctioncallFr(TRUE, {}))
    [] f.pc = "ret" -> Return(m, None)
  )

\* Parser.explist
StepExplist(m0) ==
  Strict(m0, LAMBDA m :
  LET f == Top(m)
      comma == Match(m, ",")
  IN
  CASE f.pc = "start" -> Call(m, "first", Fr("exp"))
    [] f.pc = "first" ->
         IF comma.ok THEN Call(comma.m, "ret", Fr("exp")) ELSE Return(m, None)
    [] f.pc = "ret" -> Return(m, None)
  )

Binop == {"+", "-", "*", "/", "^", "%", "..", "<", "<=", ">", ">=", "==",
          "~=", "and", "or"}

\* Parser.exp
StepExp(m0) ==
  Strict(m0, LAMBDA m :
  LET f == Top(m)
      unop == MatchSet(m, {"-", "not", "#"})
      binop == MatchSet(m, Binop)
  IN
  CASE f.pc = "start" ->
         IF unop.ok THEN Call(unop.m, "ret", Fr("exp"))
         ELSE Call(m, "value_ret", Fr("value"))
    [] f.pc = "value_ret" ->
         IF binop.ok THEN Call(binop.m, "ret", Fr("exp")) ELSE Return(m, None)
    [] f.pc = "ret" -> Return(m, None)
  )

\* str(self.t.line)
LineStr(line) == IF line = NoneTok.line THEN "None" ELSE ToString(line)

\* self._functions[name] = params
SetFunction(m0, name, params) ==
  Strict(m0, LAMBDA m :
  IF Raised(m) THEN m
  ELSE [m EXCEPT !.functions =
          [k \in DOMAIN @ \cup {name} |-> IF k = name THEN params ELSE @[k]]]
  )

\* the parameters of a function without the variadic marker: '...' is read
\* but not recorded
AppendEllipsis_Dropped(params) == params

\* self._functions[self._lastfunction].append("...")
AppendEllipsis(params) == Append(params, "...")

\* Parser.funcbody after the parameters: ')', forget the name, the body
FuncbodyBlock(m0) ==
  Strict(m0, LAMBDA m :
  LET r == Match(m, ")")
      m1 == IF r.ok THEN r.m
            ELSE E(m, ")", "expected in function '" \o m.lastfunction \o "'")
  IN  Call(SetLastfunction(m1, ""), "ret", ChunkFr({"end"}))
  )

\* Parser.funcbody.  When the parameter list is empty, nmatch(")") consumes
\* the ")" and the procedure is over: the name is not forgotten and the body
\* is not parsed here.
StepFuncbody(m0) ==
  Strict(m0, LAMBDA m :
  LET f == Top(m)
      name == IF m.lastfunction = ""
              THEN "Unnamed function " \o ToString(m.unnamed_function)
                   \o " on line " \o LineStr(m.tok.line)
              ELSE m.lastfunction
      m1 == IF m.lastfunction = ""
            THEN [m EXCEPT !.lastfunction = name, !.unnamed_function = @ + 1]
            ELSE m
      m2 == IF name \in DOMAIN m.functions
            THEN E(m1, "", "Function '" \o name \o "' defined multiple times")
            ELSE m1
      m3 == SetFunction(m2, name, <<>>)
      open == Match(m3, "(")
      m4 == IF open.ok THEN open.m
            ELSE E(m3, "(", "expected in function '" \o name \o "'")
      empty == Match(m4, ")")
      ellipsis == Match(m4, "...")
      sofar == m.functions[m.lastfunction]
  IN
  CASE f.pc = "start" ->
         IF empty.ok THEN Return(empty.m, None)
         ELSE IF ellipsis.ok
         THEN FuncbodyBlock(SetFunction(ellipsis.m, name,
                                        AppendEllipsis(<<>>)))
         ELSE Call(m4, "params", Fr("namelist"))
    [] f.pc = "params" ->
         FuncbodyBlock(SetFunction(m, m.lastfunction, sofar \o m.ret.params))
    [] f.pc = "except" ->
         FuncbodyBlock(SetFunction(m, m.lastfunction,
                                   AppendEllipsis(sofar \o m.ret.params)))
    [] f.pc = "ret" -> Return(m, None)
  )

\* Parser.namelist: the first name, then one iteration of its loop per step
StepNamelist(m0) ==
  Strict(m0, LAMBDA m :
  LET f == Top(m)
      n == Name(m)
      comma == Match(m, ",")
      ellipsis == Match(comma.m, "...")
      n2 == Name(comma.m)
  IN
  CASE f.pc = "start" ->
         Goto([n.m EXCEPT !.stack[Len(m.stack)].temp = <<n.v>>], "loop")
    [] f.pc = "loop" ->
         IF ~comma.ok THEN ReturnList(m, f.temp)
         ELSE IF ellipsis.ok
         THEN Raise(ellipsis.m, Exc("EllipsisException",
                                    "'...' encountered in namelist", f.temp))
         ELSE [n2.m EXCEPT !.stack[Len(m.stack)].temp = Append(@, n2.v)]
  )

\* self._lastfunction += s
AddLastfunction(m0, s) ==
  Strict(m0, LAMBDA m :
  IF Raised(m) THEN m ELSE [m EXCEPT !.lastfunction = @ \o s]
  )

\* Parser.funcname: the first name, then one iteration of its loop per step
StepFuncname(m0) ==
  Strict(m0, LAMBDA m :
  LET f == Top(m)
      n == Name(SetLastfunction(m, ""))
      dot == Match(m, ".")
      colon == Match(m, ":")
      nd == Name(AddLastfunction(dot.m, "."))
      nc == Name(AddLastfunction(colon.m, ":"))
  IN
  CASE f.pc = "start" -> Goto(AddLastfunction(n.m, n.v), "loop")
    [] f.pc = "loop" ->
         IF dot.ok THEN AddLastfunction(nd.m, nd.v)
         ELSE IF colon.ok THEN Return(AddLastfunction(nc.m, nc.v), None)
         ELSE Return(m, None)
  )

\* ------------------------------------------------------------- exceptions

\* The try statements of the parser: the frame that catches an exception is
\* the one waiting in the call the try encloses.
Handles_NotInChunk(f, e) ==
  \/ f.proc = "funcbody" /\ f.pc = "params" /\ e.type = "EllipsisException"
  \/ f.proc = "stat" /\ f.pc = "local_names" /\ e.type = "EllipsisException"
  \/ f.proc = "parser" /\ f.pc = "chunk_ret" /\ e.type = "EllipsisException"

Handles(f, e) ==
  \/ f.proc = "chunk" /\ f.pc = "stat_ret" /\ e.type = "EndOfScopeException"
  \/ f.proc = "funcbody" /\ f.pc = "params" /\ e.type = "EllipsisException"
  \/ f.proc = "stat" /\ f.pc = "local_names" /\ e.type = "EllipsisException"
  \/ f.proc = "parser" /\ f.pc = "chunk_ret" /\ e.type = "EllipsisException"

\* An exception in flight leaves every frame up to the one that catches it,
\* which goes on in its except clause with the exception at hand.
RECURSIVE Unwind(_)
Unwind(m) ==
  IF ~Raised(m) \/ m.stack = <<>> THEN m
  ELSE IF Handles(Top(m), m.exc)
       THEN [m EXCEPT !.stack[Len(m.stack)].pc = "except", !.ret = m.exc,
                      !.exc = NoExc]
       ELSE Unwind([m EXCEPT !.stack = SubSeq(@, 1, Len(@) - 1)])

\* ------------------------------------------------------------------ inputs

\* Lexer.name's keywords
LuaKeywords ==
  {"and", "break", "do", "else", "elseif", "end", "false", "for", "function",
   "if", "in", "local", "nil", "not", "or", "repeat", "return", "then",
   "true", "until", "while"}

\* The type the lexer gives a token text.
TypeOf(t) ==
  IF t \in LuaKeywords THEN "key"
  ELSE IF t = "1" THEN "num"
  ELSE IF t = "\"s\"" THEN "str"
  ELSE IF t \in {"a", "b", "f", "g", "x", "y", "d", "en", "ennd", "els",
                 "untl", "whille", "locl", "fr", "thn"} THEN "name"
  ELSE "sym"

\* The tokens of a sequence of texts, one token per line.
Tokenize(texts) ==
  [i \in 1..Len(texts) |-> [t |-> texts[i], tt |-> TypeOf(texts[i]), line |-> i]]

\* The sequences over S of length at most n.
RECURSIVE SeqsUpTo(_, _)
SeqsUpTo(S, n) ==
  IF n = 0 THEN {<<>>}
  ELSE LET shorter == SeqsUpTo(S, n - 1)
       IN  shorter \cup {Append(q, x) : q \in shorter, x \in S}

Prefixes(q) == {SubSeq(q, 1, n) : n \in 0..Len(q)}

\* Raw inputs: every token sequence of at most MaxToks tokens over
\* RawAlphabet, and every prefix of the Samples (inputs that end in the
\* middle of a construct).
MaxToks == 3

RawAlphabet == {"x", "=", "1", "do", "end", "function", "(", "break"}

Samples ==
  {<<"while", "x", "do", "if", "y", "then", "x", "=", "1", "elseif", "y",
     "then", "x", "=", "1", "else", "x", "=", "1", "end", "end">>,
   <<"whille", "x", "do", "end", "x", "=", "1">>,
   <<"do", "do", "x", "=", "1", "ennd", "end", "x", "=", "1">>,
   <<"x", "y", "d">>,
   <<"if", "x", "thn", "x", "=", "1", "els", "x", "=", "1", "en">>,
   <<"x", ".", "a", "[", "1", "]", ",", "y", "=", "{", "a", "=", "1", ",",
     "[", "1", "]", "=", "1", ";", "x", "}", ",", "f", "(", "x", ",", "\"s\"",
     ")", ":", "g", "\"s\"">>,
   <<"for", "x", "=", "1", ",", "1", ",", "1", "do", "end", "for", "x", ",",
     "y", "in", "x", "do", "break", ";", "end">>,
   <<"repeat", "local", "a", ",", "b", "=", "1", ",", "-", "1", "+", "1",
     "until", "x", "(", "1", ")", "return", "x", "x">>,
   <<"local", "a", ",", "...", "=", "1", "function", "f", ".", "a", ":", "b",
     "(", "a", ",", "b", ",", "...", ")", "return", "end">>,
   <<"(", "x", ")", "(", ")", "x", "=", "(", "1", ")", ".", "a", "do",
     "return", "1", "x">>,
   <<"do", "whille", "x", "do", "end", "end", "x", "=", "1">>,
   <<"do", "break", ";", "ennd", "x", "=", "1">>,
   <<"do", "return", "x", ";", ";", "end">>,
   <<"function", "f", "(", "a", ",", "...", ",", "...", ")", "end">>,
   <<"function", "f", "(", "...", ",", "a", ")", "end">>}

RawInputs ==
  SeqsUpTo(RawAlphabet, MaxToks) \cup UNION {Prefixes(q) : q \in Samples}

\* Well-formed inputs: programs of one or two function declarations.  A
\* declaration is named ('function f'), local ('local function f') or
\* anonymous ('x = function'); its parameter list is at most MaxParams names,
\* with or without a final '...'; its body is empty or, in a program of shape
\* "body", the other declaration.
MaxParams == 1

ParamNames == <<"a", "b", "y">>

ParamLists ==
  UNION {{SubSeq(ParamNames, 1, n), Append(SubSeq(ParamNames, 1, n), "...")} :
           n \in 0..MaxParams}

Decls ==
  [kind : {"named", "local"}, name : {"f", "g"}, params : ParamLists]
  \cup [kind : {"anon"}, name : {""}, params : ParamLists]

RECURSIVE CommaSeparated(_)
CommaSeparated(q) ==
  IF Len(q) <= 1 THEN q
  ELSE <<Head(q), ",">> \o CommaSeparated(Tail(q))

Header(d) ==
  CASE d.kind = "named" -> <<"function", d.name>>
    [] d.kind = "local" -> <<"local", "function", d.name>>
    [] d.kind = "anon" -> <<"x", "=", "function">>

Signature(d) == Header(d) \o <<"(">> \o CommaSeparated(d.params) \o <<")">>

DeclTexts(d, body) == Signature(d) \o body \o <<"end">>

Programs ==
  [shape : {"one"}, d1 : Decls, d2 : {CHOOSE d \in Decls : TRUE}]
  \cup [shape : {"seq", "body", "block"}, d1 : Decls, d2 : Decls]

ProgramTexts(p) ==
  CASE p.shape = "one" -> DeclTexts(p.d1, <<>>)
    [] p.shape = "seq" -> DeclTexts(p.d1, <<>>) \o DeclTexts(p.d2, <<>>)
    [] p.shape = "body" -> DeclTexts(p.d1, DeclTexts(p.d2, <<>>))
    [] p.shape = "block" ->
         <<"do">> \o DeclTexts(p.d1, <<>>) \o <<"end">> \o DeclTexts(p.d2, <<>>)

\* What a program declares, in source order: the key of each declaration in
\* the function table (an anonymous function's N counts the anonymous
\* functions before it, its L is the line of its '('), its parameters, and
\* the line of its '('.
Declared(p) ==
  LET start1 == IF p.shape = "block" THEN 2 ELSE 1
      start2 == CASE p.shape \in {"one", "seq"} ->
                       1 + Len(DeclTexts(p.d1, <<>>))
                  [] p.shape = "body" -> 1 + Len(Signature(p.d1))
                  [] p.shape = "block" -> 3 + Len(DeclTexts(p.d1, <<>>))
      Key(d, start, n) ==
        IF d.kind = "anon"
        THEN "Unnamed function " \o ToString(n) \o " on line "
             \o ToString(start + Len(Header(d)))
        ELSE d.name
      e1 == [key |-> Key(p.d1, start1, 0), params |-> p.d1.params,
             paren |-> start1 + Len(Header(p.d1))]
      e2 == [key |-> Key(p.d2, start2, IF p.d1.kind = "anon" THEN 1 ELSE 0),
             params |-> p.d2.params, paren |-> start2 + Len(Header(p.d2))]
  IN  IF p.shape = "one" THEN <<e1>> ELSE <<e1, e2>>

Inputs ==
  {[kind |-> "raw", texts |-> q, decls |-> <<>>] : q \in RawInputs}
  \cup {[kind |-> "decls", texts |-> ProgramTexts(p), decls |-> Declared(p)] :
          p \in Programs}

\* The candidates of e_set, in the two iteration orders considered.
HashOrder ==
  <<None, "end", "else", "elseif", "until", "do", "while", "repeat", "if",
    "for", "function", "local">>

Reverse(q) == [i \in 1..Len(q) |-> q[Len(q) + 1 - i]]

HashOrders == {HashOrder, Reverse(HashOrder)}

\* ------------------------------------------------------- lexer.py: Lexer

\* Texts are sequences of characters here.  The character classes of the
\* regular expressions [0-9], [0-9a-fA-F], [a-zA-Z_] and of str.isspace().
Digits == {"0", "1", "2", "3", "4", "5", "6", "7", "8", "9"}

HexDigits ==
  Digits \cup {"a", "b", "c", "d", "e", "f", "A", "B", "C", "D", "E", "F"}

Letters ==
  {"a", "b", "c", "d", "e", "f", "g", "h", "i", "j", "k", "l", "m", "n", "o",
   "p", "q", "r", "s", "t", "u", "v", "w", "x", "y", "z", "A", "B", "C", "D",
   "E", "F", "G", "H", "I", "J", "K", "L", "M", "N", "O", "P", "Q", "R", "S",
   "T", "U", "V", "W", "X", "Y", "Z", "_"}

Space == {" ", "\t", "\n", "\r", "\f"}

Range(s) == {s[i] : i \in 1..Len(s)}

\* s.startswith(p)
StartsWith(s, p) == Len(s) >= Len(p) /\ SubSeq(s, 1, Len(p)) = p

\* s.find(p) counted from 1; 0 when p does not occur in s
Find(s, p) ==
  LET hits == {i \in 1..(Len(s) - Len(p) + 1) : SubSeq(s, i, i + Len(p) - 1) = p}
  IN  IF hits = {} THEN 0 ELSE CHOOSE i \in hits : \A j \in hits : i <= j

\* len(s.split(p)) - 1: the occurrences of p in s, from the left, that do
\* not overlap
RECURSIVE Occurrences(_, _)
Occurrences(s, p) ==
  LET i == Find(s, p)
  IN  IF i = 0 THEN 0
      ELSE 1 + Occurrences(SubSeq(s, i + Len(p), Len(s)), p)

\* the longest prefix of s made of characters of S
RECURSIVE TakeWhile(_, _)
TakeWhile(s, S) ==
  IF s # <<>> /\ Head(s) \in S THEN <<Head(s)>> \o TakeWhile(Tail(s), S)
  ELSE <<>>

RECURSIVE DropSpace(_)
DropSpace(s) == IF s # <<>> /\ Head(s) \in Space THEN DropSpace(Tail(s)) ELSE s

RECURSIVE Word(_)
Word(s) ==
  IF s = <<>> \/ Head(s) \in Space THEN <<>> ELSE <<Head(s)>> \o Word(Tail(s))

\* s.split()[0], or '' when s.split() is empty
FirstWord(s) == Word(DropSpace(s))

Repeat(c, n) == [i \in 1..n |-> c]

\* Lexer.iterator: its locals before the first next().  position is the
\* number of characters yielded so far, i.e. the index of the last one.
IterInit ==
  [position |-> 0, line_number |-> 1, increment_line_number |-> FALSE]

\* next() of an iterator that never moves on to the next line
IterNext_SameLine(it) ==
  [position |-> it.position + 1, line_number |-> it.line_number,
   increment_line_number |-> source[it.position + 1] = "\n"]

\* One next() of Lexer.iterator, which yields the line number, the character
\* source[position] and the remainder of the source from it.
IterNext(it) ==
  [position |-> it.position + 1,
   line_number |-> IF it.increment_line_number THEN it.line_number + 1
                   ELSE it.line_number,
   increment_line_number |-> source[it.position + 1] = "\n"]

\* k times next()
RECURSIVE IterSkip(_, _)
IterSkip(it, k) ==
  IF k = 0 THEN it
  ELSE Strict(IterNext(it), LAMBDA next : IterSkip(next, k - 1))

\* What a scanner hands back: the token, its type, what it adds to
\* self._skip, and the messages it reports with self.e.
Scan(token, token_type, skip, msgs) ==
  [token |-> token, token_type |-> token_type, skip |-> skip, errors |-> msgs]

KeywordChars == {Chars(k) : k \in LuaKeywords}

\* Lexer.name
NameScan(src) ==
  LET token == TakeWhile(src, Letters \cup Digits)
  IN  Scan(token, IF token \in KeywordChars THEN "key" ELSE "name", 0, <<>>)

\* The loop of Lexer.number over the characters of a decimal number.
RECURSIVE NumberLoop(_, _)
NumberLoop(s, acc) ==
  IF s = <<>> THEN acc
  ELSE
    LET c == Head(s)
        a == [acc EXCEPT !.after_exponent = FALSE]
        next ==
          IF c = "."
          THEN IF acc.decimal
               THEN [a EXCEPT !.msgs = Append(@, "Decimal point occurs multiple times."),
                              !.skip = @ + 1]
               ELSE [a EXCEPT !.decimal = TRUE, !.token = Append(@, c)]
          ELSE IF c \in {"e", "E"}
          THEN IF acc.exponent
               THEN [a EXCEPT !.msgs = Append(@, "Multiple exponents in number."),
                              !.skip = @ + 1]
               ELSE [a EXCEPT !.exponent = TRUE, !.after_exponent = TRUE,
                              !.token = Append(@, c)]
          ELSE [a EXCEPT !.token = Append(@, c)]
    IN  IF ~acc.after_exponent /\ c \in {"+", "-"} THEN acc
        ELSE IF c \notin {".", "e", "E"} /\ c \notin Digits /\ c \notin {"+", "-"}
        THEN a
        ELSE Strict(next, LAMBDA n : NumberLoop(Tail(s), n))

\* Lexer.number
NumberScan(src) ==
  IF StartsWith(src, <<"0", "x">>)
  THEN Scan(<<"0", "x">> \o TakeWhile(SubSeq(src, 3, Len(src)), HexDigits),
            "num", 0, <<>>)
  ELSE LET acc == NumberLoop(src, [token |-> <<>>, decimal |-> FALSE,
                                   exponent |-> FALSE, after_exponent |-> FALSE,
                                   skip |-> 0, msgs |-> <<>>])
       IN  Scan(acc.token, "num", acc.skip, acc.msgs)

\* Lexer.string, a long string: source starts with '[=' or '[['
LongString(src) ==
  LET val0 == Tail(src)
      at == Find(val0, <<"[">>)
      second == at # 0
      bracket0 == IF second THEN SubSeq(val0, 1, at - 1)
                  ELSE TakeWhile(val0, {"="})
      val == IF second THEN SubSeq(val0, at + 1, Len(val0))
             ELSE SubSeq(val0, Len(bracket0) + 1, Len(val0))
      other == bracket0 # <<>> /\ Range(bracket0) # {"="}
      level == Repeat("=", Len(bracket0))
      open == <<"[">> \o level \o <<"[">>
      bracket == <<"]">> \o level \o <<"]">>
      end == Find(val, bracket)
      closed == end # 0
      body == IF closed THEN SubSeq(val, 1, end - 1) ELSE FirstWord(val)
      token == open \o body \o bracket
      nested == Occurrences(token, open) >= 2
  IN  Scan(token, "str",
           (IF second THEN 0 ELSE -1) + (IF closed THEN 0 ELSE -Len(bracket)),
           (IF second THEN <<>>
            ELSE <<"String does not have a second '[' symbol.">>)
           \o (IF other THEN <<"Symbols other than '=' between initial '['.">>
               ELSE <<>>)
           \o (IF closed THEN <<>> ELSE <<"String not closed.">>)
           \o (IF nested THEN <<"Long brackets are nested.">> ELSE <<>>))

Escapes == {"a", "b", "f", "n", "r", "t", "v", "\\", "\"", "'"}

\* The loop of Lexer.string over the characters after the opening quote.
RECURSIVE QuotedLoop(_, _, _)
QuotedLoop(s, bracket, acc) ==
  IF s = <<>> THEN acc
  ELSE
    LET c == Head(s)
        illegal == c \notin Escapes /\ c \notin Digits
        next ==
          IF acc.escaped
          THEN IF illegal
               THEN [acc EXCEPT !.msgs = Append(@, "Illegal escape in string."),
                                !.token = @ \o <<"\\", c>>,
                                !.skip = @ - 1, !.escaped = FALSE]
               ELSE [acc EXCEPT !.token = Append(@, c), !.escaped = FALSE]
          ELSE IF c = "\\"
          THEN [acc EXCEPT !.token = Append(@, c), !.escaped = TRUE]
          ELSE [acc EXCEPT !.token = Append(@, c)]
    IN  IF ~acc.escaped /\ c # "\\" /\ c = bracket
        THEN [acc EXCEPT !.token = Append(@, bracket), !.closed = TRUE]
        ELSE Strict(next, LAMBDA n : QuotedLoop(Tail(s), bracket, n))

\* Lexer.string
StringScan(src) ==
  IF Head(src) = "["
  THEN LongString(src)
  ELSE LET bracket == Head(src)
           acc == QuotedLoop(Tail(src), bracket,
                             [token |-> <<bracket>>, escaped |-> FALSE,
                              closed |-> FALSE, skip |-> 0, msgs |-> <<>>])
       IN  IF acc.closed THEN Scan(acc.token, "str", acc.skip, acc.msgs)
           ELSE Scan(Append(FirstWord(acc.token), bracket), "str",
                     acc.skip - 1, Append(acc.msgs, "String not closed."))

SingleSymbols ==
  {"+", "-", "*", "/", "%", "^", "#", "(", ")", "{", "}", "[", "]", ";", ":",
   ","}

LongSymbols ==
  << <<".", ".", ".">>, <<".", ".">>, <<".">>, <<"=", "=">>, <<"~", "=">>,
     <<"<", "=">>, <<"=">>, <<">", "=">>, <<"<">>, <<">">> >>

\* Lexer.symbols
SymbolsScan(src) ==
  LET hits == {i \in 1..Len(LongSymbols) : StartsWith(src, LongSymbols[i])}
  IN  IF Head(src) \in SingleSymbols THEN Scan(<<Head(src)>>, "sym", 0, <<>>)
      ELSE IF hits # {}
      THEN Scan(LongSymbols[CHOOSE i \in hits : \A j \in hits : i <= j],
                "sym", 0, <<>>)
      ELSE Scan(<<Head(src)>>, "invalid", 0,
                <<"'" \o Head(src) \o "' does not start a valid token.">>)

\* Lexer.__init__, before the first step of lexer().  start is history: the
\* index of the first character of the token being scanned; pieces is
\* history: what every iteration of the loop of lexer() has passed over,
\* as the text it made of it (a whitespace character, or the token, yielded
\* or not).
LexStart ==
  [pc |-> "lexer", it |-> IterInit, line |-> 0, skip |-> 0, n |-> 0,
   token |-> <<>>, token_type |-> None, start |-> 0, out |-> <<>>,
   errors |-> <<>>, pieces |-> <<>>, crash |-> ""]

\* source[position:] of the character the loop of lexer() stands at
Remainder(l) == SubSeq(source, l.it.position, Len(source))

\* Lexer.lexer: the head of its loop takes the next character (the generator
\* ends when there is none) and chooses the scanner.
LexerStep(l) ==
  IF l.it.position = Len(source) THEN [l EXCEPT !.pc = "done"]
  ELSE
    LET it == IterNext(l.it)
        character == source[it.position]
        remainder == SubSeq(source, it.position, Len(source))
        l1 == [l EXCEPT !.it = it, !.line = it.line_number]
    IN  IF character \in Space
        THEN [l1 EXCEPT !.pieces = Append(@, <<character>>)]
        ELSE [l1 EXCEPT
                !.start = it.position,
                !.pc = IF character \in Letters THEN "name"
                       ELSE IF character \in Digits THEN "number"
                       ELSE IF \/ character \in {"\"", "'"}
                               \/ StartsWith(remainder, <<"[", "=">>)
                               \/ StartsWith(remainder, <<"[", "[">>)
                       THEN "string"
                       ELSE "symbols"]

\* token, token_type = <scanner>(remainder), up to the call of skip
Scanned(l, r) ==
  [l EXCEPT !.token = r.token, !.token_type = r.token_type,
            !.skip = @ + r.skip,
            !.errors = @ \o [i \in 1..Len(r.errors) |->
                               [line |-> l.line, message |-> r.errors[i]]],
            !.n = Len(r.token) - 1,
            !.pc = "skip"]

\* Lexer.skip(len(token) - 1) and the yield of lexer().  The loop of skip
\* ends when n + self._skip, which each next() decrements, is 0: a negative
\* count, or one larger than what is left, exhausts the iterator, and the
\* StopIteration of next() leaves the generator as a RuntimeError.
SkipStep(l) ==
  LET count == l.n + l.skip
      left == Len(source) - l.it.position
      it == IterSkip(l.it, count)
  IN  IF count < 0 \/ count > left
      THEN [l EXCEPT !.it = IterSkip(@, left), !.pc = "crashed",
                     !.crash = "RuntimeError"]
      ELSE [l EXCEPT
              !.it = it, !.skip = 0, !.pc = "lexer",
              !.pieces = Append(@, l.token),
              !.out = IF l.token_type # "invalid"
                      THEN Append(@, [t |-> l.token, tt |-> l.token_type,
                                      line |-> l.line, start |-> l.start,
                                      stop |-> it.position])
                      ELSE @]

\* ------------------------------------------------------- the specification

\* Parser.__init__ (Tokens.__init__ pulls the first token) and the call of
\* Parser.parser.
Init ==
  /\ \E i \in Inputs :
       /\ toks = Tokenize(i.texts)
       /\ input = [kind |-> i.kind, decls |-> i.decls]
  /\ hashorder \in HashOrders
  /\ pos = 1
  /\ tok = IF Len(toks) > 0 THEN toks[1] ELSE NoneTok
  /\ errors = <<>>
  /\ functions = [k \in {} |-> <<>>]
  /\ lastfunction = ""
  /\ unnamed_function = 0
  /\ stack = <<Fr("parser")>>
  /\ ret = Exc("none", None, <<>>)
  /\ status = "running"
  /\ crash = ""
  /\ source = <<>>
  /\ lex = [LexStart EXCEPT !.pc = "idle"]
  /\ tee = TeeIdle

\* The state after a step: an exception that no frame catches leaves
\* parser().
Install(m0) ==
  \E m \in {Unwind(m0)} :
  /\ pos' = m.pos
  /\ tok' = m.tok
  /\ errors' = m.errors
  /\ functions' = m.functions
  /\ lastfunction' = m.lastfunction
  /\ unnamed_function' = m.unnamed_function
  /\ stack' = m.stack
  /\ ret' = m.ret
  /\ status' = IF m.stack # <<>> THEN "running"
               ELSE IF Raised(m) THEN "crashed" ELSE "returned"
  /\ crash' = IF m.stack = <<>> /\ Raised(m) THEN m.exc.type ELSE crash
  /\ UNCHANGED <<toks, hashorder, input, source, lex, tee>>

Running(proc) == status = "running" /\ stack[Len(stack)].proc = proc

parser == Running("parser") /\ Install(StepParser(M))
chunk == Running("chunk") /\ Install(StepChunk(M))
stat == Running("stat") /\ Install(StepStat(M))
var == Running("var") /\ Install(StepVar(M))
varorfunctioncall ==
  Running("varorfunctioncall") /\ Install(StepVarorfunctioncall(M))
index == Running("index") /\ Install(StepIndex(M))
tableconstructor ==
  Running("tableconstructor") /\ Install(StepTableconstructor(M))
call == Running("call") /\ Install(StepCall(M))
field == Running("field") /\ Install(StepField(M))
value == Running("value") /\ Install(StepValue(M))
explist == Running("explist") /\ Install(StepExplist(M))
exp == Running("exp") /\ Install(StepExp(M))
funcbody == Running("funcbody") /\ Install(StepFuncbody(M))
namelist == Running("namelist") /\ Install(StepNamelist(M))
funcname == Running("funcname") /\ Install(StepFuncname(M))

Next ==
  \/ parser \/ chunk \/ stat \/ var \/ varorfunctioncall \/ index
  \/ tableconstructor \/ call \/ field \/ value \/ explist \/ exp
  \/ funcbody \/ namelist \/ funcname

Spec == Init /\ [][Next]_vars

\* parser() is one sequential run: as long as it has not ended, it takes its
\* next step.
FairSpec == Spec /\ WF_vars(Next)

\* ------------------------------------------- the specification of the lexer

\* Sources: every text of at most MaxSrcLen characters over SrcAlphabet, and
\* every prefix of the SrcSamples.
MaxSrcLen == 4

SrcAlphabet == {"\"", " ", "\\", "e", "\n", "1", ".", "[", "=", "]"}

SrcSamples ==
  {<<"1", ".", "1", ".", "1">>,
   <<"1", "e", "-", "1", "e", "1", "+", "1">>,
   <<"0", "x", "1", "f", "g">>,
   <<"\"", "a", "\\", "q", "b", "\"", "d", "o">>,
   <<"'", "\\", "n", "\n", "'", "~", "=", "x">>,
   <<"[", "=", "[", "a", "\n", "]", "=", "]", "x">>,
   <<"[", "=", "a", "[", "[", "=", "=", "[", "]", "=", "=", "]">>,
   <<"\"", "a", " ", "\\", "q", " ", "\\", "q">>,
   <<"x", "\n", "~", "\n", "y", ".", ".", ".">>}

Sources ==
  SeqsUpTo(SrcAlphabet, MaxSrcLen) \cup UNION {Prefixes(q) : q \in SrcSamples}

\* The parser's variables while only the lexer runs.
ParserIdle ==
  /\ toks = <<>>
  /\ input = [kind |-> "source", decls |-> <<>>]
  /\ hashorder = HashOrder
  /\ pos = 1
  /\ tok = NoneTok
  /\ errors = <<>>
  /\ functions = [k \in {} |-> <<>>]
  /\ lastfunction = ""
  /\ unnamed_function = 0
  /\ stack = <<>>
  /\ ret = Exc("none", None, <<>>)
  /\ status = "idle"
  /\ crash = ""
  /\ tee = TeeIdle

parservars ==
  <<toks, hashorder, input, pos, tok, errors, functions, lastfunction,
    unnamed_function, stack, ret, status, crash, tee>>

LexInit ==
  /\ source \in Sources
  /\ lex = LexStart
  /\ ParserIdle

lexer == lex.pc = "lexer" /\ lex' = LexerStep(lex) /\ UNCHANGED <<source, parservars>>
name ==
  /\ lex.pc = "name"
  /\ lex' = Scanned(lex, NameScan(Remainder(lex)))
  /\ UNCHANGED <<source, parservars>>
number ==
  /\ lex.pc = "number"
  /\ lex' = Scanned(lex, NumberScan(Remainder(lex)))
  /\ UNCHANGED <<source, parservars>>
string ==
  /\ lex.pc = "string"
  /\ lex' = Scanned(lex, StringScan(Remainder(lex)))
  /\ UNCHANGED <<source, parservars>>
symbols ==
  /\ lex.pc = "symbols"
  /\ lex' = Scanned(lex, SymbolsScan(Remainder(lex)))
  /\ UNCHANGED <<source, parservars>>
skip == lex.pc = "skip" /\ lex' = SkipStep(lex) /\ UNCHANGED <<source, parservars>>

LexNext == lexer \/ name \/ number \/ string \/ symbols \/ skip

LexSpec == LexInit /\ [][LexNext]_vars

\* --------------------------------- the specification of Parser.e and e_set

\* One call of Parser.e or of Parser.e_set, on a token stream whose current
\* token is a real token (the end of input is the matter of Spec).  The
\* texts include a pair whose similarity ratio is exactly 0.65 (13 matching
\* characters of 13 + 27) and a pair just above it.
ETexts ==
  {"aaaaaaaaaaaaabbbbbbbbbbbbbb", "aaaaaaaaaaaaabbbbbbbbbbbbb",
   "aaaaaaaaaaaaa", "whille", "ennd", "en", "els", "untl", "thn", "x", "end"}

EExpected == {"aaaaaaaaaaaaa", "end", "then", "do", "while", "until", ")"}

EExpectations ==
  {{}, {"end"}, {"end", None}, {"until"}, {"elseif", "else", "end"},
   StatKeywords, {"aaaaaaaaaaaaa"}, {"aaaaaaaaaaaaa", "end", "while"}}

ECalls ==
  [kind : {"e"}, expected : EExpected, expectation : {{}},
   increment : {FALSE}, msg : {"expected"}, decls : {<<>>}]
  \cup [kind : {"e_set"}, expected : {""}, expectation : EExpectations,
        increment : BOOLEAN, msg : {"", "Scope not closed"}, decls : {<<>>}]

EInit ==
  /\ input \in ECalls
  /\ \E t \in ETexts : toks \in {Tokenize(<<t>>), Tokenize(<<t, "x">>)}
  /\ \E order \in {HashOrder \o <<"aaaaaaaaaaaaa">>} :
       hashorder \in {order, Reverse(order)}
  /\ pos = 1
  /\ tok = toks[1]
  /\ errors = <<>>
  /\ functions = [k \in {} |-> <<>>]
  /\ lastfunction = ""
  /\ unnamed_function = 0
  /\ stack = <<>>
  /\ ret = Exc("none", None, <<>>)
  /\ status = "running"
  /\ crash = ""
  /\ source = <<>>
  /\ lex = [LexStart EXCEPT !.pc = "idle"]
  /\ tee = TeeIdle

\* self.e(expected, msg)
e ==
  /\ status = "running" /\ input.kind = "e"
  /\ Install(E(M, input.expected, input.msg))

\* self.e_set(expectation, increment, msg): ret is the keyword it returns
e_set ==
  /\ status = "running" /\ input.kind = "e_set"
  /\ \E r \in {ESet(M, input.expectation, input.increment, input.msg)} :
       Install([r.m EXCEPT !.ret = Exc("none", r.best_match, <<>>)])

ENext == e \/ e_set

ESpec == EInit /\ [][ENext]_vars

\* ------------------------------------- the specification of class Tokens

\* Calls of next, lookahead and lookahead_ttt in any order on a token stream
\* of at most MaxStream tokens, at most MaxCalls calls.  Tokenize gives
\* every token its own line, so that no two tokens of a stream are equal.
MaxStream == 4

MaxCalls == 5

StreamAlphabet == {"x", "=", "do"}

Streams == {Tokenize(q) : q \in SeqsUpTo(StreamAlphabet, MaxStream)}

\* Tokens.__init__: the first token is made current.
TokInit ==
  /\ toks \in Streams
  /\ \E first \in {TeeNext(TeeIdle, toks)} :
       /\ tok = first.item
       /\ tee = [first.it EXCEPT !.made = <<first.item>>, !.op = "__init__"]
  /\ input = [kind |-> "tokens", decls |-> <<>>]
  /\ hashorder = HashOrder
  /\ pos = 1
  /\ errors = <<>>
  /\ functions = [k \in {} |-> <<>>]
  /\ lastfunction = ""
  /\ unnamed_function = 0
  /\ stack = <<>>
  /\ ret = Exc("none", None, <<>>)
  /\ status = "tokens"
  /\ crash = ""
  /\ source = <<>>
  /\ lex = [LexStart EXCEPT !.pc = "idle"]

Callable == status = "tokens" /\ tee.calls < MaxCalls

\* Tokens.next: next(self._tokens, (None, None, None))
next ==
  /\ Callable
  /\ \E r \in {TeeNext(tee, toks)} :
       /\ tok' = r.item
       /\ pos' = IF r.stop THEN Len(toks) + 1 ELSE pos + 1
       /\ tee' = [r.it EXCEPT !.made = Append(@, r.item), !.op = "next",
                              !.calls = @ + 1]
  /\ UNCHANGED <<toks, hashorder, input, errors, functions, lastfunction,
                 unnamed_function, stack, ret, status, crash, source, lex>>

\* A lookahead: next() of a tee of self._tokens, with no default; what is
\* returned is made of the token read.
Peek(property, Returned(_)) ==
  /\ \E r \in {TeePeek(tee, toks)} :
       /\ tee' = [r.it EXCEPT !.peek = r.item, !.op = property,
                              !.calls = @ + 1, !.peeked = @ + 1]
       /\ ret' = IF r.stop THEN ret ELSE Returned(r.item)
       /\ status' = IF r.stop THEN "crashed" ELSE status
       /\ crash' = IF r.stop THEN "StopIteration" ELSE crash
  /\ UNCHANGED <<toks, hashorder, input, pos, tok, errors, functions,
                 lastfunction, unnamed_function, stack, source, lex>>

\* Tokens.lookahead: return t
lookahead ==
  /\ Callable
  /\ Peek("lookahead", LAMBDA item : Exc("none", item.t, <<>>))

\* Tokens.lookahead_ttt: return t, tt
lookahead_ttt ==
  /\ Callable
  /\ Peek("lookahead_ttt", LAMBDA item : Exc("none", item.t, <<item.tt>>))

TokNext == next \/ lookahead \/ lookahead_ttt

TokSpec == TokInit /\ [][TokNext]_vars

\* ------------------------------------------------------------- properties

\* A loop that begins an iteration has moved on in the token stream since it
\* began the last one, or the current name has been replaced by a keyword
\* (set_t) on the way; and it has moved on since the iteration before the
\* last one in any case.
LoopProgress ==
  status = "running" /\ AtLoopHead(stack[Len(stack)]) =>
    LET f == stack[Len(stack)]
        replaced == /\ pos = f.mark /\ pos <= Len(toks)
                    /\ toks[pos].tt = "name" /\ tok.tt = "key"
    IN  /\ f.mark >= 0 => pos > f.mark \/ replaced
        /\ f.mark2 >= 0 => pos > f.mark2

\* C2: for any finite token sequence the parser terminates: every iteration
\* of a loop of the parser consumes at least one token, or returns, or
\* replaces the current name by a keyword that the next iteration consumes,
\* and the run ends (parser() returns or an exception leaves it).
C2_Terminates == []LoopProgress /\ <>(status # "running")

\* C2: the loop of chunk begins an iteration in which nothing was consumed
\* since the last one, the current name having been replaced by a keyword.
C2_Witness ==
  /\ status = "running" /\ stack[Len(stack)].proc = "chunk"
  /\ stack[Len(stack)].pc = "start" /\ stack[Len(stack)].mark = pos
  /\ tok.tt = "key" /\ pos <= Len(toks) /\ toks[pos].tt = "name"

\* The run has ended: parser() has returned, or an exception has left it.
Ended == status # "running"

\* The number of diagnostics with this message.
Count(message) ==
  Cardinality({i \in 1..Len(errors) : errors[i].message = message})

\* C1: errors never abort the run: for every finite token sequence parser()
\* returns normally; no exception escapes from the lookahead taken at the
\* last token, nor from reporting an expected token or an invalid name at the
\* end of input.
C1_NeverAborts == status # "crashed"

\* The declarations of a well-formed input have pairwise distinct keys and
\* no variadic marker.
PlainDecls ==
  /\ input.kind = "decls"
  /\ \A i, j \in 1..Len(input.decls) :
        i # j => input.decls[i].key # input.decls[j].key
  /\ \A i \in 1..Len(input.decls) :
        \A k \in 1..Len(input.decls[i].params) :
          input.decls[i].params[k] # "..."

\* C4: on a well-formed input of function declarations (named, local,
\* anonymous; empty or non-empty parameter lists; in sequence or nested) the
\* parse ends with zero diagnostics, every token read, and the function table
\* has exactly one entry per declaration, mapped to its parameter names.
C4_EveryFunctionEnumerated ==
  Ended /\ PlainDecls =>
    /\ status = "returned"
    /\ errors = <<>>
    /\ pos = Len(toks) + 1
    /\ DOMAIN functions = {input.decls[i].key : i \in 1..Len(input.decls)}
    /\ \A i \in 1..Len(input.decls) :
          functions[input.decls[i].key] = input.decls[i].params

\* The input declares the same function name twice.
SameNameTwice ==
  /\ input.kind = "decls"
  /\ Len(input.decls) = 2
  /\ input.decls[1].key = input.decls[2].key

\* The diagnostic of a duplicate definition, reported at the '(' that opens
\* the parameters.
DefinedMultipleTimes(key) ==
  "'(' not expected. Function '" \o key \o "' defined multiple times."

\* C5: when an input declares the same function name twice (the parameter
\* lists may be empty), exactly one diagnostic "Function '<name>' defined
\* multiple times" is recorded, at the second declaration, and the function
\* table keeps one entry for the name, with the parameters of the last
\* declaration.
C5_DuplicateReportedOnce ==
  Ended /\ SameNameTwice =>
    LET key == input.decls[2].key IN
    /\ Count(DefinedMultipleTimes(key)) = 1
    /\ \E i \in 1..Len(errors) :
          /\ errors[i].message = DefinedMultipleTimes(key)
          /\ errors[i].line = input.decls[2].paren
    /\ DOMAIN functions = {key}
    /\ functions[key] = input.decls[2].params

\* The diagnostic of the end of input inside an open block.
ScopeNotClosed == "'None' not expected. Scope not closed."

\* The number of blocks a sequence of 'do' and 'end' leaves open; -1 if an
\* 'end' closes no block or another token occurs.
RECURSIVE OpenBlocks(_, _)
OpenBlocks(texts, n) ==
  IF texts = <<>> THEN n
  ELSE IF Head(texts) = "do" THEN OpenBlocks(Tail(texts), n + 1)
  ELSE IF Head(texts) = "end" /\ n > 0 THEN OpenBlocks(Tail(texts), n - 1)
  ELSE -1

\* C6: the end of input inside an open block is reported once: no run
\* records "Scope not closed" twice, and an input of 'do' and 'end' that
\* leaves n >= 1 blocks open ends with exactly that one diagnostic,
\* whatever n.
C6_ScopeNotClosedOnce ==
  Ended =>
    /\ Count(ScopeNotClosed) <= 1
    /\ OpenBlocks([i \in 1..Len(toks) |-> toks[i].t], 0) >= 1 =>
          /\ status = "returned"
          /\ errors = <<[line |-> NoneTok.line, message |-> ScopeNotClosed]>>

\* C7: the parse loop stops early only at the end of input inside an open
\* block: when parser() returns, every token of the input has been read and
\* the current token is the end-of-input sentinel.
C7_StopsOnlyAtEndOfInput ==
  status = "returned" => pos = Len(toks) + 1 /\ tok = NoneTok

\* C3: after a scanner returns a token, the extra advance of the cursor
\* computed in Lexer.skip, len(token) - 1 + self._skip, is at least 0 and at
\* most the number of characters left, so the character iterator is never
\* driven past the end of the input: no exception leaves lexer().
C3_SkipWithinInput ==
  /\ lex.pc # "crashed"
  /\ lex.pc = "skip" =>
        /\ lex.n + lex.skip >= 0
        /\ lex.n + lex.skip <= Len(source) - lex.it.position

RECURSIVE Flatten(_)
Flatten(pieces) ==
  IF pieces = <<>> THEN <<>> ELSE Head(pieces) \o Flatten(Tail(pieces))

\* C8: when lexing is over, the texts of the yielded tokens, the skipped
\* whitespace and the texts of the suppressed invalid tokens, laid end to
\* end in source order, are the source; and the text of every yielded token
\* is the substring of the source that the cursor passed over for it.
C8_TotalCoverage ==
  lex.pc = "done" =>
    /\ Flatten(lex.pieces) = source
    /\ \A i \in 1..Len(lex.out) :
          lex.out[i].t = SubSeq(source, lex.out[i].start, lex.out[i].stop)

\* The physical line of the character at index k, counted from 1, a newline
\* belonging to the line it ends.
LineOf(k) == 1 + Cardinality({j \in 1..(k - 1) : source[j] = "\n"})

\* C9: every yielded token carries the physical line of its first character,
\* also when the token spans several lines, and the lines of the yielded
\* tokens are non-decreasing in emission order.
C9_TokenLines ==
  \A i \in 1..Len(lex.out) :
    /\ lex.out[i].line = LineOf(lex.out[i].start)
    /\ i > 1 => lex.out[i - 1].line <= lex.out[i].line

\* C9: a token that spans two lines has been yielded, and a token of a
\* later line after it.
C9_Witness ==
  \E i, j \in 1..Len(lex.out) :
    /\ i < j
    /\ "\n" \in Range(lex.out[i].t)
    /\ lex.out[j].line > lex.out[i].line

\* ratio > 0.65 and ratio = 0.65, for a ratio <<2 * M, T>>
Above065(r) == r[1] * SIMILAR_DEN > SIMILAR_NUM * r[2]
Exactly065(r) == r[1] * SIMILAR_DEN = SIMILAR_NUM * r[2]

\* C10: Parser.e with a non-empty expected text consumes exactly one token
\* when the similarity ratio of the current text and the expected text is
\* strictly greater than 0.65 and leaves the token stream as it is when the
\* ratio is 0.65 or lower, and appends exactly one diagnostic in both cases;
\* e_set returns a candidate (one of the best ratio, and consumes a token if
\* asked to) only when the best ratio is strictly greater than 0.65, and
\* returns "" otherwise.
C10_StrictThreshold ==
  status = "returned" =>
    LET text == toks[1].t
        second == IF Len(toks) > 1 THEN toks[2] ELSE NoneTok
        candidates == input.expectation \ {None}
        similar == {c \in candidates : Above065(Ratio(text, c))}
    IN  /\ input.kind = "e" =>
              /\ Len(errors) = 1
              /\ IF Above065(Ratio(text, input.expected))
                 THEN pos = 2 /\ tok = second
                 ELSE pos = 1 /\ tok = toks[1]
        /\ input.kind = "e_set" =>
              /\ IF similar = {} THEN ret.arg = ""
                 ELSE /\ ret.arg \in similar
                      /\ \A c \in candidates :
                            ~RatioGreater(Ratio(text, c), Ratio(text, ret.arg))
              /\ IF similar # {} /\ input.increment
                 THEN pos = 2 /\ tok = second
                 ELSE pos = 1 /\ tok = toks[1]

\* C10: e has returned after a call at a ratio of exactly 0.65.
C10_Witness ==
  /\ status = "returned" /\ input.kind = "e"
  /\ Exactly065(Ratio(toks[1].t, input.expected))

Peeks == {"lookahead", "lookahead_ttt"}

\* The token stream as next() delivers it: the tokens of the lexer, then the
\* end of input for ever.
Delivered(i) == IF i <= Len(toks) THEN toks[i] ELSE NoneTok

\* What a lookahead returned of the token it read.
ReturnedOf(op, item) ==
  IF op = "lookahead" THEN Exc("none", item.t, <<>>)
  ELSE Exc("none", item.t, <<item.tt>>)

\* C11: lookahead does not disturb consumption: on a stream that has a token
\* after the current one a lookahead returns (the text, and for
\* lookahead_ttt the type, of) the token that the following next() makes
\* current, two lookaheads in a row read the same token, a lookahead leaves
\* the current token (text, type, line) as it is, and the tokens made
\* current by __init__ and the calls of next are the tokens of the lexer in
\* order, nothing skipped or repeated, however many lookaheads come between.
C11_LookaheadKeepsStream ==
  /\ [](tee.op # "idle" =>
          /\ tok = tee.made[Len(tee.made)]
          /\ \A i \in 1..Len(tee.made) : tee.made[i] = Delivered(i))
  /\ [][/\ tee'.op \in Peeks /\ status' = "tokens" =>
             /\ tok' = tok
             /\ tee'.made = tee.made
             /\ ret' = ReturnedOf(tee'.op, tee'.peek)
             /\ tee.op \in Peeks => tee'.peek = tee.peek
        /\ tee.op \in Peeks /\ tee'.op = "next" => tok' = tee.peek]_vars

\* C11: after lookaheads and calls of next in some order, a next has just
\* made current the token that the lookahead before it read, the third
\* token of the stream or a later one.
C11_Witness ==
  /\ tee.op = "next" /\ tee.peeked >= 2 /\ Len(tee.made) >= 3
  /\ tok = tee.peek /\ tok # NoneTok

\* A statement begins with a misspelled keyword: stat has called
\* varorfunctioncall on a name that has a token after it, none of those that
\* continue a variable or a call, and the name is similar to no terminator
\* of the chunk but similar to a statement keyword.
MisspelledKeyword ==
  /\ Running("varorfunctioncall")
  /\ Len(stack) > 1 /\ stack[Len(stack) - 1].proc = "stat"
  /\ stack[Len(stack)].pc = "start"
  /\ tok.tt = "name"
  /\ pos < Len(toks)
  /\ toks[pos + 1].t \notin {",", "=", "[", ".", "(", "{", ":"}
  /\ toks[pos + 1].tt # "str"
  /\ \A c \in stack[Len(stack)].cond \ {None} : ~Above065(Ratio(tok.t, c))
  /\ \E k \in StatKeywords : Above065(Ratio(tok.t, k))

\* The diagnostic of a misspelled keyword.
TypoIn(text, keyword) ==
  "Typo in '" \o text \o "' - should probably be '" \o keyword \o "'."

\* C12: in any chunk, the top-level chunk included, and whatever the order
\* in which the sets of candidates are iterated, a statement that begins
\* with a misspelled keyword records exactly one "Typo" diagnostic naming
\* the keyword and overwrites the current token with the keyword, consuming
\* nothing, and the run goes on; and the input 'whille x do end' ends with
\* parser() returned, every token read and one diagnostic in all.
C12_MisspelledKeyword ==
  /\ [][MisspelledKeyword =>
          /\ status' = "running"
          /\ pos' = pos
          /\ \E k \in StatKeywords :
                /\ Above065(Ratio(tok.t, k))
                /\ tok' = [tok EXCEPT !.t = k, !.tt = "key"]
                /\ errors' = Append(errors, [line |-> tok.line,
                                             message |-> TypoIn(tok.t, k)])]_vars
  /\ [](/\ Ended
        /\ [i \in 1..Len(toks) |-> toks[i].t] = <<"whille", "x", "do", "end">>
        => /\ status = "returned"
           /\ pos = Len(toks) + 1
           /\ Len(errors) = 1)

\* The parameter list ends with the variadic marker.
Variadic(params) == params # <<>> /\ params[Len(params)] = "..."

\* A well-formed input of declarations with distinct keys, none with an
\* empty parameter list.
ParameterDecls ==
  /\ input.kind = "decls"
  /\ \A i, j \in 1..Len(input.decls) :
        i # j => input.decls[i].key # input.decls[j].key
  /\ \A i \in 1..Len(input.decls) : input.decls[i].params # <<>>

Signals == {"EllipsisException", "EndOfScopeException"}

\* A frame has caught a signal and stands at its except clause.
Caught(s) == s # <<>> /\ s[Len(s)].pc = "except"

\* C14: control signals never reach the top level.  No signal leaves
\* parser(), and the except clause of parser() is never entered.  A signal
\* of namelist is caught by the funcbody or the 'local' statement that
\* called it.  A signal of varorfunctioncall is caught by the chunk that
\* called the statement, its argument is a terminator of that chunk's set,
\* which is the set passed down, and the chunk then returns it.  The
\* varorfunctioncall of var() and of value() has the empty set.
C14_SignalsCaught ==
  /\ [](/\ crash \notin Signals
        /\ status = "running" =>
             /\ ~(stack[1].proc = "parser" /\ stack[1].pc = "except")
             /\ \A i \in 2..Len(stack) :
                   /\ stack[i].proc = "varorfunctioncall"
                   /\ stack[i - 1].proc \in {"var", "value"}
                   => stack[i].cond = {})
  /\ [][/\ status' = "running" /\ Caught(stack') =>
             LET raiser == stack[Len(stack)]
                 catcher == stack'[Len(stack')]
             IN  \/ /\ ret'.type = "EllipsisException"
                    /\ raiser.proc = "namelist"
                    /\ Len(stack') = Len(stack) - 1
                    /\ catcher.proc \in {"funcbody", "stat"}
                 \/ /\ ret'.type = "EndOfScopeException"
                    /\ raiser.proc = "varorfunctioncall"
                    /\ stack[Len(stack) - 1].proc = "stat"
                    /\ Len(stack') = Len(stack) - 2
                    /\ catcher.proc = "chunk"
                    /\ raiser.cond = catcher.cond
                    /\ ret'.arg \in catcher.cond \ {None}
        /\ /\ status = "running" /\ Caught(stack)
           /\ stack[Len(stack)].proc = "chunk"
           => /\ ret' = Exc("none", ret.arg, <<>>)
              /\ stack' = SubSeq(stack, 1, Len(stack) - 1)]_vars

\* C14: a chunk nested in a block has caught the signal of a misspelled
\* terminator.
C14_Witness ==
  /\ status = "running" /\ Caught(stack) /\ Len(stack) >= 4
  /\ stack[Len(stack)].proc = "chunk"
  /\ ret.type = "EndOfScopeException" /\ ret.arg = "end"

AfterBreak == "Scope not closed after 'break' or 'return'."

\* C15: nothing may follow 'break' or 'return' in a block.  In any chunk,
\* once a 'break' or a 'return' has been parsed (and a ';' after it, if
\* any), a next token that is neither a terminator of the chunk nor the end
\* of input makes the chunk record the one diagnostic "Scope not closed
\* after 'break' or 'return'" and return, no statement parsed; a next token
\* that is a terminator closes the chunk with no diagnostic.
C15_NothingAfterBreak ==
  [][/\ Running("chunk") /\ stack[Len(stack)].pc = "start"
     /\ stack[Len(stack)].broken
     => LET f == stack[Len(stack)] IN
        /\ status' # "crashed"
        /\ stack' = SubSeq(stack, 1, Len(stack) - 1)
        /\ tok.t \notin f.cond /\ tok.t # None =>
              /\ Len(errors') = Len(errors) + 1
              /\ errors'[Len(errors')].message = AfterBreak
        /\ tok.t \in f.cond =>
              /\ errors' = errors
              /\ ret' = Exc("none", tok.t, <<>>)]_vars

\* The diagnostics of a duplicate definition.
Duplicates(list) ==
  {i \in 1..Len(list) :
     \E j \in 1..Len(list[i].message) :
        SubSeq(list[i].message, j, Len(list[i].message))
          = "defined multiple times."}

\* C16: anonymous functions get their own key.  Whenever funcbody starts
\* for a function expression (called by value), _lastfunction is empty; the
\* function is stored under the fresh key 'Unnamed function N on line L', N
\* the number of anonymous functions before it, no entry of another function
\* is changed and no duplicate definition is reported.
C16_AnonymousOwnKey ==
  [][/\ Running("funcbody") /\ stack[Len(stack)].pc = "start"
     /\ stack[Len(stack) - 1].proc = "value"
     => LET key == "Unnamed function " \o ToString(unnamed_function)
                   \o " on line " \o LineStr(tok.line)
        IN  /\ lastfunction = ""
            /\ key \notin DOMAIN functions
            /\ unnamed_function' = unnamed_function + 1
            /\ DOMAIN functions' = DOMAIN functions \cup {key}
            /\ \A k \in DOMAIN functions : functions'[k] = functions[k]
            /\ Duplicates(errors') = Duplicates(errors)]_vars

====
